---- MODULE Spec2Model ----
(***************************************************************************)
(* A model of the TodoMVC application of src/js/todo-app.js: the Todo      *)
(* model, the TodoList collection backed by localStorage, the TodoFilter,  *)
(* the TodoView item views, the AppView and the Filters router.  Every     *)
(* action is one DOM or router event handled to completion, including     *)
(* every Backbone event listener the handler triggers on the way.          *)
(***************************************************************************)
EXTENDS Integers, Sequences, FiniteSets, TLC

\* ---------------------------------------------------------------- bounds
\* Number of ids the storage adapter hands out in one session.
MaxId == 2

\* ------------------------------------------------------------- constants
ENTER_KEY == 13

\* --------------------------------------------------------------- strings
\* A string is a sequence of characters; " " stands for any white space.
Empty == << >>
\* The texts a user leaves in an input field: empty, blank, plain, padded.
Texts == {Empty, <<" ">>, <<"a">>, <<" ", "a", " ">>}
\* The keys of a keypress event (e.which): Enter and another one (Escape).
Keys == {ENTER_KEY, 27}

RECURSIVE TrimLeft(_)
TrimLeft(s) ==
  IF s # Empty /\ Head(s) = " " THEN TrimLeft(Tail(s)) ELSE s

RECURSIVE TrimRight(_)
TrimRight(s) ==
  IF s # Empty /\ s[Len(s)] = " " THEN TrimRight(SubSeq(s, 1, Len(s) - 1)) ELSE s

\* String.prototype.trim
Trim(s) == TrimRight(TrimLeft(s))

\* The values the route parameter takes: the three filter keywords and one
\* fragment that is none of them.
NoFilter == ""
Fragments == {"", "active", "completed", "bogus"}
\* The arguments the router calls the route handler with: none, or the
\* filter parameter of the fragment.
RouteArgs == {<< >>} \cup {<<f>> : f \in Fragments}

\* ----------------------------------------------------------------- state
VARIABLES
  todos,       \* TodoList.models: sequence of Todo attribute records
  storage,     \* localStorage 'todos-traceur-backbone': set of records
  guid,        \* number of ids the storage adapter has assigned
  filter,      \* TodoFilter.value
  views,       \* the TodoViews in #todo-list, in DOM order
  newInput,    \* value of the #new-todo field
  allChecked,  \* #toggle-all checked
  shown,       \* #main and #footer are shown
  stats,       \* the counts last rendered into #footer
  focus,       \* id of the todo whose .edit field has the focus, 0 if none has
  event,       \* the event handled last: its kind, its todo, its key, the
               \* arguments the router passed, and the number of calls its
               \* handler made to the storage adapter (history)
  boot         \* the startup: its step, the tokens the injector has a provider
               \* for, whether the storage held todos, the instances made and
               \* the token an error names

vars == <<todos, storage, guid, filter, views, newInput, allChecked, shown, stats,
          focus, event, boot>>

Range(s) == {s[i] : i \in 1..Len(s)}

\* ----------------------------------------------------------- TodoList
\* TodoList.completed: this.filter(todo => todo.get('completed'))
CompletedOf(ms) == SelectSeq(ms, LAMBDA t : t.completed)

\* Collection.without(...values): the models that are none of the values
Without(ms, values) == SelectSeq(ms, LAMBDA t : t \notin Range(values))

\* remaining() without the spread: the array of completed todos is itself no
\* model of the collection, so nothing is left out.
RemainingNoSpread(ms) == Without(ms, << >>)

\* TodoList.remaining: this.without(...this.completed())
RemainingOf(ms) == Without(ms, CompletedOf(ms))

\* nextOrder() reading the first todo instead of the last.
NextOrderFirst(ms) ==
  IF Len(ms) = 0 THEN 1 ELSE ms[1].order + 1

\* nextOrder() without the increment.
NextOrderNoInc(ms) ==
  IF Len(ms) = 0 THEN 1 ELSE ms[Len(ms)].order

\* TodoList.nextOrder
NextOrderOf(ms) ==
  IF Len(ms) = 0 THEN 1 ELSE ms[Len(ms)].order + 1

\* TodoList.comparator: the sort key of a todo
Comparator(t) == t.order

\* Collection.sort with a one-argument comparator: a stable sort by the key
RECURSIVE SortBy(_)
SortBy(ms) ==
  IF Len(ms) <= 1 THEN ms
  ELSE LET rest == SortBy(SubSeq(ms, 1, Len(ms) - 1))
           x == ms[Len(ms)]
           k == Cardinality({i \in 1..Len(rest) : Comparator(rest[i]) <= Comparator(x)})
       IN SubSeq(rest, 1, k) \o <<x>> \o SubSeq(rest, k + 1, Len(rest))

\* ----------------------------------------------------------- TodoView
\* isHidden with the two filter keywords exchanged.
IsHiddenSwapped(isCompleted, filterValue) ==
  \/ (~isCompleted /\ filterValue = "active")
  \/ (isCompleted /\ filterValue = "completed")

\* TodoView.isHidden
IsHidden(isCompleted, filterValue) ==
  \/ (~isCompleted /\ filterValue = "completed")
  \/ (isCompleted /\ filterValue = "active")

\* TodoView.toggleVisible
ToggleVisible(v, t, f) == [v EXCEPT !.hidden = IsHidden(t.completed, f)]

\* TodoView.render: the item template fills the edit field with the title
RenderView(v, t, f) == [ToggleVisible(v, t, f) EXCEPT !.input = t.title]

\* The model a view renders.
ModelOf(ms, id) == CHOOSE t \in Range(ms) : t.id = id

\* Views that do not listen to their model's events.
RenderViewsNone(vs, ms, f, changed) == vs

\* Every view handles its model's 'change' and 'visible' events.
RenderViews(vs, ms, f, changed) ==
  [i \in 1..Len(vs) |->
     IF vs[i].model \in changed
       THEN RenderView(vs[i], ModelOf(ms, vs[i].model), f)
       ELSE vs[i]]

\* ------------------------------------------------------------ AppView
\* render() handing the two counts to the template the wrong way round.
AppRenderStatsSwapped(ms, old) ==
  IF Len(ms) # 0
    THEN [completed |-> Len(RemainingOf(ms)), remaining |-> Len(CompletedOf(ms))]
    ELSE old

\* AppView.render, run on every event of the collection
AppRenderStats(ms, old) ==
  IF Len(ms) # 0
    THEN [completed |-> Len(CompletedOf(ms)), remaining |-> Len(RemainingOf(ms))]
    ELSE old

AppRender(ms) ==
  /\ shown' = (Len(ms) # 0)
  /\ stats' = AppRenderStats(ms, stats)
  /\ allChecked' = (Len(RemainingOf(ms)) = 0)

\* AppView.addOne: a new view from the lazy factory, rendered and appended
AddOne(vs, t, f) ==
  Append(vs, RenderView([model |-> t.id, editing |-> FALSE, hidden |-> FALSE,
                         input |-> Empty], t, f))

\* Views that do not listen to their model's 'destroy' event.
RemoveViewsNone(vs, ids) == vs

\* View.remove, run on the model's 'destroy' event
RemoveViews(vs, ids) == SelectSeq(vs, LAMBDA v : v.model \notin ids)

\* newAttributes() taking the text of the field as it is.
NewAttributesUntrimmed(input, ms) ==
  [title |-> input, order |-> NextOrderOf(ms), completed |-> FALSE]

\* AppView.newAttributes
NewAttributes(input, ms) ==
  [title |-> Trim(input), order |-> NextOrderOf(ms), completed |-> FALSE]

\* createOnEnter() testing the text of the field as it is.
CreateReturnsEarlyUntrimmed(which, input) ==
  which # ENTER_KEY \/ input = Empty

\* The early return of AppView.createOnEnter
CreateReturnsEarly(which, input) ==
  which # ENTER_KEY \/ Trim(input) = Empty

\* create() adding the new model at the front, unsorted.
CollectionCreateAtFront(ms, attrs, id) ==
  <<[id |-> id, title |-> attrs.title,
     completed |-> attrs.completed, order |-> attrs.order]>> \o ms

\* Collection.create: the new model is added (and the collection sorted) and
\* saved, the storage adapter assigning its id
CollectionCreate(ms, attrs, id) ==
  SortBy(Append(ms, [id |-> id, title |-> attrs.title,
                     completed |-> attrs.completed, order |-> attrs.order]))

\* Model.save(attrs) on the model with this id
SaveIn(ms, id, field, value) ==
  [i \in 1..Len(ms) |->
     IF ms[i].id = id THEN [ms[i] EXCEPT ![field] = value] ELSE ms[i]]

\* toggle() saving completed: true.
ToggledSet(ms, id) == SaveIn(ms, id, "completed", TRUE)

\* Todo.toggle
Toggled(ms, id) == SaveIn(ms, id, "completed", ~ModelOf(ms, id).completed)

\* Model.destroy on each of the models: the collection drops them
Destroyed(ms, gone) == Without(ms, gone)

\* updateOnEnter() closing on Escape as well.
IsEnterOrEscape(which) == which \in {ENTER_KEY, 27}

\* The test of TodoView.updateOnEnter: e.which === ENTER_KEY
IsEnter(which) == which = ENTER_KEY

\* close() with its test inverted.
CloseSavesInverted(title) == title = Empty

\* The branch of TodoView.close: a truthy title is saved
CloseSaves(title) == title # Empty

\* clearCompleted() destroying only the first completed todo.
ClearCompletedFirst(ms) ==
  IF Len(CompletedOf(ms)) = 0 THEN ms ELSE Destroyed(ms, <<CompletedOf(ms)[1]>>)

\* AppView.clearCompleted: _.invoke(this.todos.completed(), 'destroy')
ClearCompletedOf(ms) == Destroyed(ms, CompletedOf(ms))

\* toggleAllComplete() calling todo.toggle() on each todo.
ToggleAllEach(ms, completed, i) ==
  [k \in 1..Len(ms) |-> [ms[k] EXCEPT !.completed = ~ms[k].completed]]

\* AppView.toggleAllComplete: this.todos.each(todo => todo.save({ completed }))
RECURSIVE ToggleAllOf(_, _, _)
ToggleAllOf(ms, completed, i) ==
  IF i > Len(ms) THEN ms
  ELSE ToggleAllOf(SaveIn(ms, ms[i].id, "completed", completed), completed, i + 1)

\* An adapter that creates records but does not write updates.
StoreWriteCreateOnly(st, t) ==
  IF \E r \in st : r.id = t.id THEN st ELSE st \cup {t}

\* The storage adapter's create and update: the record of the model is
\* written under its id.
StoreWrite(st, t) == {r \in st : r.id # t.id} \cup {t}

\* The storage adapter's destroy: the record of the id is removed.
StoreRemove(st, id) == {r \in st : r.id # id}

\* The storage after every model of ms with an id in ids was saved.
RECURSIVE StoreWriteAll(_, _, _)
StoreWriteAll(st, ms, i) ==
  IF i > Len(ms) THEN st ELSE StoreWriteAll(StoreWrite(st, ms[i]), ms, i + 1)

\* The storage after every model of gone was destroyed.
RECURSIVE StoreRemoveAll(_, _, _)
StoreRemoveAll(st, gone, i) ==
  IF i > Len(gone) THEN st ELSE StoreRemoveAll(StoreRemove(st, gone[i].id), gone, i + 1)

\* filter() with no default value: without an argument param is undefined.
FilterParamNoDefault(args) == IF Len(args) = 0 THEN "undefined" ELSE args[1]

\* filter() with 'all' as the default value.
FilterParamDefaultAll(args) == IF Len(args) = 0 THEN "all" ELSE args[1]

\* The parameter of Filters.filter(param = ''): the default value stands in
\* for an argument that is missing
FilterParam(args) == IF Len(args) = 0 THEN "" ELSE args[1]

\* filter() without the 'filter' event: no view recomputes its visibility.
FilterAllNone(vs, ms, f) == vs

\* AppView.filterAll, run on the 'filter' event: every todo triggers
\* 'visible' and its view runs toggleVisible
FilterAll(vs, ms, f) ==
  [i \in 1..Len(vs) |-> ToggleVisible(vs[i], ModelOf(ms, vs[i].model), f)]

\* The enumerations of the records of the storage.
Enumerations(st) ==
  {s \in [1..Cardinality(st) -> st] : {s[i] : i \in 1..Cardinality(st)} = st}

\* Collection.fetch: the models a collection gets from the records of the
\* storage, read in the order rs and sorted by the comparator
Fetch(rs) == SortBy(rs)

Ids(ms) == {ms[i].id : i \in 1..Len(ms)}
HasView(id) == \E i \in 1..Len(views) : views[i].model = id
ViewOf(id) == CHOOSE v \in Range(views) : v.model = id
SetView(vs, id, field, value) ==
  [i \in 1..Len(vs) |->
     IF vs[i].model = id THEN [vs[i] EXCEPT ![field] = value] ELSE vs[i]]

\* ------------------------------------------------------------- startup
\* The tokens a component is annotated with may lack a provider.
DepTokens == {"TodoList", "TodoFilter", "TodoView", "itemTemplate", "statsTemplate"}

\* AppView annotated without its 'statsTemplate' parameter.
EagerDepsNoStats(token) ==
  IF token = "AppView" THEN <<"TodoList", "TodoFilter">>
  ELSE IF token = "Filters" THEN <<"TodoList", "TodoFilter">>
  ELSE IF token = "TodoView" THEN <<"TodoFilter", "itemTemplate">>
  ELSE << >>

\* The @Inject annotations: the tokens resolved before a component is
\* constructed ('options' is handed over by the caller of the factory)
EagerDeps(token) ==
  IF token = "AppView" THEN <<"TodoList", "TodoFilter", "statsTemplate">>
  ELSE IF token = "Filters" THEN <<"TodoList", "TodoFilter">>
  ELSE IF token = "TodoView" THEN <<"TodoFilter", "itemTemplate">>
  ELSE << >>

\* The @InjectLazy annotations: the tokens a component gets a factory for
LazyDeps(token) == IF token = "AppView" THEN <<"TodoView">> ELSE << >>

NoError == "none"

\* Injector.get(token): a cached instance is returned; a token without a
\* provider fails with an error that names it; otherwise the eager
\* dependencies are resolved in order, the first failure ending the
\* resolution, and the instance is made and cached.  The result is the
\* instances made and the error.
RECURSIVE InjectorGet(_, _, _)
RECURSIVE InjectorGetAll(_, _, _, _)
InjectorGetAll(tokens, i, made, registered) ==
  IF i > Len(tokens) THEN [made |-> made, error |-> NoError]
  ELSE LET r == InjectorGet(tokens[i], made, registered)
       IN IF r.error # NoError THEN r
          ELSE InjectorGetAll(tokens, i + 1, r.made, registered)

InjectorGet(token, made, registered) ==
  IF token \in made THEN [made |-> made, error |-> NoError]
  ELSE IF token \notin registered THEN [made |-> made, error |-> token]
  ELSE LET r == InjectorGetAll(EagerDeps(token), 1, made, registered)
       IN IF r.error # NoError THEN r
          ELSE [made |-> r.made \cup {token}, error |-> NoError]

\* The factory of a lazy dependency: a new instance on every call, resolved
\* when it is called; it is not cached.
InjectorFactory(token, made, registered) ==
  LET r == InjectorGet(token, made, registered)
  IN [made |-> r.made \ {token}, error |-> r.error]

\* injector.get(AppView): the dependencies, then the constructor, whose
\* fetch() adds the stored todos, making a view for each (addOne)
GetAppViewResult(b) ==
  LET deps == InjectorGetAll(EagerDeps("AppView"), 1, b.made, b.registered)
      view == InjectorFactory(LazyDeps("AppView")[1], deps.made, b.registered)
  IN IF deps.error # NoError THEN deps
     ELSE IF b.stored /\ view.error # NoError THEN view
     ELSE IF b.stored THEN [made |-> view.made \cup {"AppView"}, error |-> NoError]
     ELSE [made |-> deps.made \cup {"AppView"}, error |-> NoError]

\* injector.get(Filters)
GetFiltersResult(b) ==
  LET deps == InjectorGetAll(EagerDeps("Filters"), 1, b.made, b.registered)
  IN IF deps.error # NoError THEN deps
     ELSE [made |-> deps.made \cup {"Filters"}, error |-> NoError]

\* The step of the startup after a get().
BootStep(b, r, pc) ==
  [b EXCEPT !.made = r.made, !.error = r.error,
            !.pc = IF r.error # NoError THEN "failed" ELSE pc]

\* The page as loaded: new Injector([templateModule]) has registered what
\* the template module exports.
BootLoaded(registered, stored) ==
  [pc |-> "load", registered |-> registered, stored |-> stored,
   made |-> {}, error |-> NoError]

\* The application started with every provider in place and an empty storage.
BootRunning ==
  LET b0 == BootLoaded(DepTokens, FALSE)
      b1 == BootStep(b0, GetAppViewResult(b0), "appView")
      b2 == BootStep(b1, GetFiltersResult(b1), "filters")
  IN [b2 EXCEPT !.pc = "running"]

Init ==
  /\ boot = BootRunning
  /\ todos = << >>
  /\ storage = {}
  /\ guid = 0
  /\ filter = NoFilter
  /\ views = << >>
  /\ newInput = Empty
  /\ allChecked = TRUE
  /\ shown = FALSE
  /\ stats = [completed |-> 0, remaining |-> 0]
  /\ focus = 0
  /\ event = [type |-> "init", id |-> 0, which |-> 0, args |-> << >>,
              writes |-> 0]

\* ------------------------------------------------------------- handlers
\* The user changes the text of the #new-todo field.
TypeNew(text) ==
  /\ focus = 0
  /\ newInput' = text
  /\ event' = [type |-> "typeNew", id |-> 0, which |-> 0, args |-> << >>,
               writes |-> 0]
  /\ UNCHANGED boot
  /\ UNCHANGED <<todos, storage, guid, filter, views, allChecked, shown, stats, focus>>

\* 'keypress #new-todo': AppView.createOnEnter
CreateOnEnter(which) ==
  /\ focus = 0
  /\ event' = [type |-> "keypressNew", id |-> 0, which |-> which, args |-> << >>,
               writes |-> IF CreateReturnsEarly(which, newInput) THEN 0 ELSE 1]
  /\ UNCHANGED boot
  /\ IF CreateReturnsEarly(which, newInput)
       THEN UNCHANGED <<todos, storage, guid, filter, views, newInput,
                        allChecked, shown, stats, focus>>
       ELSE /\ guid < MaxId
            /\ LET attrs == NewAttributes(newInput, todos)
                   ms == CollectionCreate(todos, attrs, guid + 1)
               IN /\ todos' = ms
                  /\ storage' = StoreWrite(storage, ModelOf(ms, guid + 1))
                  /\ views' = AddOne(views, ModelOf(ms, guid + 1), filter)
                  /\ AppRender(ms)
            /\ guid' = guid + 1
            /\ newInput' = Empty
            /\ UNCHANGED <<filter, focus>>

\* 'click .toggle': TodoView.toggleCompleted
ToggleCompleted(id) ==
  /\ focus = 0
  /\ HasView(id)
  /\ LET ms == Toggled(todos, id)
     IN /\ todos' = ms
        /\ storage' = StoreWrite(storage, ModelOf(ms, id))
        /\ views' = RenderViews(views, ms, filter, {id})
        /\ AppRender(ms)
  /\ event' = [type |-> "toggle", id |-> id, which |-> 0, args |-> << >>,
               writes |-> 1]
  /\ UNCHANGED boot
  /\ UNCHANGED <<guid, filter, newInput, focus>>

\* 'click .destroy': TodoView.clear
Clear(id) ==
  /\ focus = 0
  /\ HasView(id)
  /\ LET ms == Destroyed(todos, <<ModelOf(todos, id)>>)
     IN /\ todos' = ms
        /\ storage' = StoreRemove(storage, id)
        /\ views' = RemoveViews(views, {id})
        /\ AppRender(ms)
  /\ event' = [type |-> "destroy", id |-> id, which |-> 0, args |-> << >>,
               writes |-> 1]
  /\ UNCHANGED boot
  /\ UNCHANGED <<guid, filter, newInput, focus>>

\* 'dblclick label': TodoView.edit
Edit(id) ==
  /\ focus = 0
  /\ HasView(id)
  /\ views' = SetView(views, id, "editing", TRUE)
  /\ focus' = id
  /\ event' = [type |-> "edit", id |-> id, which |-> 0, args |-> << >>,
               writes |-> 0]
  /\ UNCHANGED boot
  /\ UNCHANGED <<todos, storage, guid, filter, newInput, allChecked, shown, stats>>

\* The user changes the text of the .edit field that has the focus.
TypeEdit(id, text) ==
  /\ focus = id
  /\ HasView(id)
  /\ ViewOf(id).editing
  /\ views' = SetView(views, id, "input", text)
  /\ event' = [type |-> "typeEdit", id |-> id, which |-> 0, args |-> << >>,
               writes |-> 0]
  /\ UNCHANGED boot
  /\ UNCHANGED <<todos, storage, guid, filter, newInput, allChecked, shown, stats, focus>>

\* TodoView.close
Close(id) ==
  LET title == ViewOf(id).input
  IN IF CloseSaves(title)
       THEN LET ms == SaveIn(todos, id, "title", title)
                changed == IF ms # todos THEN {id} ELSE {}
            IN /\ todos' = ms
               /\ storage' = StoreWrite(storage, ModelOf(ms, id))
               /\ views' = SetView(RenderViews(views, ms, filter, changed),
                                   id, "editing", FALSE)
               /\ AppRender(ms)
       ELSE LET ms == Destroyed(todos, <<ModelOf(todos, id)>>)
            IN /\ todos' = ms
               /\ storage' = StoreRemove(storage, id)
               /\ views' = RemoveViews(views, {id})
               /\ AppRender(ms)

\* 'blur .edit': TodoView.close.  close() does not look at the mode of the
\* view: whenever the event arrives it calls model.save or model.destroy, one
\* call to the storage adapter.
Blur(id) ==
  /\ focus = id
  /\ HasView(id)
  /\ Close(id)
  /\ focus' = 0
  /\ event' = [type |-> "blur", id |-> id, which |-> 0, args |-> << >>,
               writes |-> 1]
  /\ UNCHANGED boot
  /\ UNCHANGED <<guid, filter, newInput>>

\* 'keypress .edit': TodoView.updateOnEnter.  After an Enter the field is
\* hidden but keeps the focus until its blur event; a field that render
\* replaced or View.remove took away may lose the focus without one.
UpdateOnEnter(id, which) ==
  /\ focus = id
  /\ HasView(id)
  /\ ViewOf(id).editing
  /\ event' = [type |-> "keypressEdit", id |-> id, which |-> which, args |-> << >>,
               writes |-> IF IsEnter(which) THEN 1 ELSE 0]
  /\ UNCHANGED boot
  /\ IF IsEnter(which)
       THEN /\ Close(id)
            /\ \/ /\ id \in Ids(todos')
                  /\ focus' = id
               \/ /\ todos' # todos
                  /\ focus' = 0
            /\ UNCHANGED <<guid, filter, newInput>>
       ELSE UNCHANGED <<todos, storage, guid, filter, views, newInput,
                        allChecked, shown, stats, focus>>

\* 'click #clear-completed': AppView.clearCompleted
ClearCompleted ==
  /\ focus = 0
  /\ LET ms == ClearCompletedOf(todos)
     IN /\ todos' = ms
        /\ storage' = StoreRemoveAll(storage, CompletedOf(todos), 1)
        /\ views' = RemoveViews(views, Ids(CompletedOf(todos)))
        /\ IF Len(CompletedOf(todos)) # 0
             THEN AppRender(ms)
             ELSE UNCHANGED <<shown, stats, allChecked>>
  /\ event' = [type |-> "clearCompleted", id |-> 0, which |-> 0, args |-> << >>,
               writes |-> Len(CompletedOf(todos))]
  /\ UNCHANGED boot
  /\ UNCHANGED <<guid, filter, newInput, focus>>

\* 'click #toggle-all': the click flips the checkbox, then
\* AppView.toggleAllComplete
ToggleAllComplete ==
  /\ focus = 0
  /\ LET completed == ~allChecked
         ms == ToggleAllOf(todos, completed, 1)
     IN /\ todos' = ms
        /\ storage' = StoreWriteAll(storage, ms, 1)
        /\ views' = RenderViews(views, ms, filter,
                                {t.id : t \in {x \in Range(todos) : x.completed # completed}})
        /\ IF Len(todos) # 0
             THEN AppRender(ms)
             ELSE /\ allChecked' = completed
                  /\ UNCHANGED <<shown, stats>>
  /\ event' = [type |-> "toggleAll", id |-> 0, which |-> 0, args |-> << >>,
               writes |-> Len(todos)]
  /\ UNCHANGED boot
  /\ UNCHANGED <<guid, filter, newInput, focus>>

\* Router '*filter': Filters.filter
Filter(args) ==
  LET param == FilterParam(args)
  IN /\ filter' = param
     /\ views' = FilterAll(views, todos, param)
     /\ AppRender(todos)
     /\ event' = [type |-> "route", id |-> 0, which |-> 0, args |-> args,
                  writes |-> 0]
     /\ UNCHANGED boot
     /\ UNCHANGED <<todos, storage, guid, newInput, focus>>

Next ==
  \/ \E text \in Texts : TypeNew(text)
  \/ \E which \in Keys : CreateOnEnter(which)
  \/ \E id \in 1..MaxId : ToggleCompleted(id)
  \/ \E id \in 1..MaxId : Clear(id)
  \/ \E id \in 1..MaxId : Edit(id)
  \/ \E id \in 1..MaxId, text \in Texts : TypeEdit(id, text)
  \/ \E id \in 1..MaxId : Blur(id)
  \/ \E id \in 1..MaxId, which \in Keys : UpdateOnEnter(id, which)
  \/ ClearCompleted
  \/ ToggleAllComplete
  \/ \E args \in RouteArgs : Filter(args)

Spec == Init /\ [][Next]_vars

\* The startup of the page, for any set of providers.
app == <<todos, storage, guid, filter, views, newInput, allChecked, shown, stats,
         focus, event>>

InitStartup ==
  /\ \E registered \in SUBSET DepTokens, stored \in BOOLEAN :
       boot = BootLoaded(registered, stored)
  /\ todos = << >>
  /\ storage = {}
  /\ guid = 0
  /\ filter = NoFilter
  /\ views = << >>
  /\ newInput = Empty
  /\ allChecked = TRUE
  /\ shown = FALSE
  /\ stats = [completed |-> 0, remaining |-> 0]
  /\ focus = 0
  /\ event = [type |-> "init", id |-> 0, which |-> 0, args |-> << >>,
              writes |-> 0]

\* injector.get(AppView)
GetAppView ==
  /\ boot.pc = "load"
  /\ boot' = BootStep(boot, GetAppViewResult(boot), "appView")
  /\ UNCHANGED app

\* injector.get(Filters)
GetFilters ==
  /\ boot.pc = "appView"
  /\ boot' = BootStep(boot, GetFiltersResult(boot), "filters")
  /\ UNCHANGED app

\* Backbone.history.start()
HistoryStart ==
  /\ boot.pc = "filters"
  /\ boot' = [boot EXCEPT !.pc = "running"]
  /\ UNCHANGED app

NextStartup == GetAppView \/ GetFilters \/ HistoryStart

SpecStartup == InitStartup /\ [][NextStartup]_vars

\* ---------------------------------------------------------------- claims
Orders(ms) == {ms[i].order : i \in 1..Len(ms)}
MaxOrder(ms) == CHOOSE m \in Orders(ms) : \A o \in Orders(ms) : o <= m
\* The position of a todo in the store.
Position(ms, t) == CHOOSE k \in 1..Len(ms) : ms[k] = t
\* s lists todos of ms without repetition and in the order of ms.
InStoreOrder(s, ms) ==
  /\ Range(s) \subseteq Range(ms)
  /\ \A i, j \in 1..Len(s) : i < j => Position(ms, s[i]) < Position(ms, s[j])

\* C1: in every reachable state completed() and remaining() partition the
\* store: no todo is in both, every todo of the store is in one of them, the
\* completed ones are exactly the todos of completed(), and each result lists
\* its todos in store order.
C1_Partition ==
  LET c == CompletedOf(todos)
      r == RemainingOf(todos)
  IN /\ Range(c) \cap Range(r) = {}
     /\ Range(c) \cup Range(r) = Range(todos)
     /\ Len(c) + Len(r) = Len(todos)
     /\ \A t \in Range(todos) : (t \in Range(c)) <=> t.completed
     /\ \A t \in Range(todos) : (t \in Range(r)) <=> ~t.completed
     /\ InStoreOrder(c, todos)
     /\ InStoreOrder(r, todos)

\* C1 witness: a store with a completed and a remaining todo, left by a toggle.
C1_Witness ==
  /\ event.type = "toggle"
  /\ Len(CompletedOf(todos)) = 1
  /\ Len(RemainingOf(todos)) = 1

\* C2: in every reachable state nextOrder() is 1 for an empty store and the
\* maximum order of the store plus one otherwise.
C2_NextOrder ==
  NextOrderOf(todos) = IF Len(todos) = 0 THEN 1 ELSE MaxOrder(todos) + 1

\* C2 witness: a store whose next order is not its length plus one (its first
\* todo was deleted).
C2_Witness ==
  /\ Len(todos) = 1
  /\ NextOrderOf(todos) = 3

\* C3: after every step no two todos of the store have the same order, and a
\* todo that was just created has an order greater than the order of every todo
\* that was in the store when it was created.
C3_OrdersUnique ==
  [][/\ \A i, j \in 1..Len(todos') : i # j => todos'[i].order # todos'[j].order
     /\ \A t \in Range(todos') :
          t.id \notin Ids(todos) => \A u \in Range(todos) : t.order > u.order]_vars

\* C3 witness: a second todo was created into a non-empty store.
C3_Witness ==
  /\ event.type = "keypressNew"
  /\ event.which = ENTER_KEY
  /\ Len(todos) = 2
  /\ todos[2].id = guid

\* C4: isHidden of a todo under the current filter: with "active" exactly the
\* completed todos are hidden, with "completed" exactly the uncompleted ones,
\* with "" and with any other value none is.
C4_IsHidden ==
  \A t \in Range(todos) :
    LET h == IsHidden(t.completed, filter)
    IN /\ filter = "active" => (h <=> t.completed)
       /\ filter = "completed" => (h <=> ~t.completed)
       /\ filter = "" => ~h
       /\ filter \notin {"active", "completed"} => ~h

\* C4 witness: the filter is "active" and the store holds a completed todo
\* (hidden) and an uncompleted one (visible).
C4_Witness ==
  /\ filter = "active"
  /\ event.type = "route"
  /\ \E t \in Range(todos) : t.completed /\ ViewOf(t.id).hidden
  /\ \E t \in Range(todos) : ~t.completed /\ ~ViewOf(t.id).hidden


\* The step handles an Enter keypress in the #new-todo field.
EnterInNew == event'.type = "keypressNew" /\ event'.which = ENTER_KEY

\* C5: Enter in the new-todo field with a text that is empty after trimming
\* changes neither the store, nor the storage, nor the item views.
C5_EmptyCreateNoOp ==
  [][(EnterInNew /\ Trim(newInput) = Empty) =>
       /\ todos' = todos
       /\ Len(todos') = Len(todos)
       /\ storage' = storage
       /\ views' = views]_vars

\* C5 witness: Enter was pressed on a blank text (which stays in the field)
\* with a todo in the store.
C5_Witness ==
  /\ event.type = "keypressNew"
  /\ event.which = ENTER_KEY
  /\ newInput = <<" ">>
  /\ Len(todos) = 1

\* C6: Enter in the new-todo field with a text that is not empty after
\* trimming adds one todo, last in the store, with the trimmed text as title,
\* not completed, with the order nextOrder() had before; the todos that were
\* there are unchanged and the field is empty afterwards.
C6_Create ==
  [][(EnterInNew /\ Trim(newInput) # Empty) =>
       LET n == Len(todos)
       IN /\ Len(todos') = n + 1
          /\ SubSeq(todos', 1, n) = todos
          /\ todos'[n + 1].title = Trim(newInput)
          /\ todos'[n + 1].completed = FALSE
          /\ todos'[n + 1].order = NextOrderOf(todos)
          /\ todos'[n + 1].id \notin Ids(todos)
          /\ newInput' = Empty]_vars

\* C6 witness: a todo was created behind another one, from a padded text or
\* a plain one.
C6_Witness ==
  /\ event.type = "keypressNew"
  /\ event.which = ENTER_KEY
  /\ Len(todos) = 2
  /\ todos[2].id = guid
  /\ todos[2].title = <<"a">>
  /\ newInput = Empty

\* The step closes the edit mode of the view of todo id: a blur of, or an Enter
\* in, the edit field of a view that is in editing mode.
ClosesEdit(id) ==
  /\ event'.id = id
  /\ \/ event'.type = "blur"
     \/ event'.type = "keypressEdit" /\ event'.which = ENTER_KEY
  /\ HasView(id)
  /\ ViewOf(id).editing

\* The todos and the records other than those of id are unchanged.
OthersUnchanged(id) ==
  /\ SelectSeq(todos', LAMBDA t : t.id # id) = SelectSeq(todos, LAMBDA t : t.id # id)
  /\ {r \in storage' : r.id # id} = {r \in storage : r.id # id}

\* C7: closing the edit mode on an edit field whose text is empty after
\* trimming deletes the todo from the store and the storage; the store is one
\* shorter and every other todo is unchanged.
C7_EmptyEditDeletes ==
  [][\A id \in 1..MaxId :
       (ClosesEdit(id) /\ Trim(ViewOf(id).input) = Empty) =>
         /\ id \notin Ids(todos')
         /\ \A r \in storage' : r.id # id
         /\ Len(todos') = Len(todos) - 1
         /\ OthersUnchanged(id)]_vars

\* C8: closing the edit mode on an edit field whose text is not empty after
\* trimming saves the text of the field as the title of the todo, in the store
\* and in the storage, and changes nothing else of the store.
C8_EditSavesTitle ==
  [][\A id \in 1..MaxId :
       (ClosesEdit(id) /\ Trim(ViewOf(id).input) # Empty) =>
         /\ Len(todos') = Len(todos)
         /\ \A i \in 1..Len(todos) :
              /\ todos'[i].id = todos[i].id
              /\ todos'[i].completed = todos[i].completed
              /\ todos'[i].order = todos[i].order
              /\ todos'[i].title =
                   IF todos[i].id = id THEN ViewOf(id).input ELSE todos[i].title
         /\ ModelOf(todos', id) \in storage'
         /\ OthersUnchanged(id)]_vars

\* C8 witness: a padded text was saved as the title of the second of two todos.
C8_Witness ==
  /\ event.type \in {"blur", "keypressEdit"}
  /\ Len(todos) = 2
  /\ event.id = todos[2].id
  /\ todos[2].title = <<" ", "a", " ">>
  /\ todos[2] \in storage
  /\ ~ViewOf(event.id).editing

\* C9: toggleAllComplete with the checkbox in state b leaves every todo with
\* completed = b (for b true, completed() is the whole store and remaining()
\* empty) and leaves titles, orders and the length of the store as they were.
C9_ToggleAll ==
  [][event'.type = "toggleAll" =>
       LET b == ~allChecked
       IN /\ Len(todos') = Len(todos)
          /\ \A i \in 1..Len(todos) :
               /\ todos'[i].completed = b
               /\ todos'[i].id = todos[i].id
               /\ todos'[i].title = todos[i].title
               /\ todos'[i].order = todos[i].order
          /\ b => /\ Len(CompletedOf(todos')) = Len(todos')
                  /\ Len(RemainingOf(todos')) = 0]_vars

\* C9 witness: toggle-all has completed a store of two todos.
C9_Witness ==
  /\ event.type = "toggleAll"
  /\ Len(todos) = 2
  /\ Len(CompletedOf(todos)) = 2
  /\ Len(RemainingOf(todos)) = 0
  /\ allChecked

\* C10: after clearCompleted the store is the todos that were uncompleted, in
\* their order and unchanged; no completed todo is left in the store or the
\* storage, and the store is shorter by the number of completed todos.
C10_ClearCompleted ==
  [][event'.type = "clearCompleted" =>
       /\ todos' = SelectSeq(todos, LAMBDA t : ~t.completed)
       /\ todos' = RemainingOf(todos)
       /\ \A t \in Range(todos') : ~t.completed
       /\ \A r \in storage' : ~r.completed
       /\ Len(todos') = Len(todos) - Len(CompletedOf(todos))]_vars

\* C10 witness: clearCompleted has left the one uncompleted todo of two.
C10_Witness ==
  /\ event.type = "clearCompleted"
  /\ guid = 2
  /\ Len(todos) = 1
  /\ ~todos[1].completed
  /\ storage = {todos[1]}
  /\ Len(views) = 1

\* The three filter keywords.
Keywords == {"", "active", "completed"}

C14_StorageMirrorsStore ==
  /\ storage = Range(todos)
  /\ Cardinality(storage) = Len(todos)
  /\ \A rs \in Enumerations(storage) : Fetch(rs) = todos

\* C14 witness: an edit has changed the title of one of two todos, and the
\* storage holds the new title.
C14_Witness ==
  /\ event.type = "blur"
  /\ Len(todos) = 2
  /\ todos[1].title = <<" ", "a", " ">>
  /\ todos[2].completed
  /\ storage = {todos[1], todos[2]}

\* C16: in every reachable state the store is sorted by order, ascending, and
\* its last todo has the maximum order.
C16_StoreSorted ==
  /\ \A i, j \in 1..Len(todos) : i < j => todos[i].order < todos[j].order
  /\ Len(todos) # 0 => todos[Len(todos)].order = MaxOrder(todos)

\* C16 witness: a store of two todos, the last one with the higher order.
C16_Witness ==
  /\ event.type = "typeNew"
  /\ Len(todos) = 2
  /\ todos[1].order = 1
  /\ todos[2].order = 2

\* C17: after every handler the hidden flag of every view is isHidden of its
\* todo's completed flag and the current filter value.
C17_VisibilityFresh ==
  \A i \in 1..Len(views) :
    \A t \in Range(todos) :
      t.id = views[i].model =>
        views[i].hidden =
          ((~t.completed /\ filter = "completed") \/ (t.completed /\ filter = "active"))

\* C17 witness: under the filter "completed" a toggle has left one todo
\* hidden and the other visible.
C17_Witness ==
  /\ event.type = "toggle"
  /\ filter = "completed"
  /\ Len(views) = 2
  /\ views[1].hidden
  /\ ~views[2].hidden

\* C19: after every handler the views and the todos correspond one to one:
\* the view at each place of the list is the view of the todo at that place of
\* the store, no todo has two views and no view is left for a deleted todo.
C19_ViewsMatchStore ==
  /\ Len(views) = Len(todos)
  /\ \A i \in 1..Len(views) : views[i].model = todos[i].id
  /\ \A i, j \in 1..Len(views) : i # j => views[i].model # views[j].model

\* C19 witness: the first of two todos was deleted; the view left is the view
\* of the second.
C19_Witness ==
  /\ event.type = "destroy"
  /\ event.id = 1
  /\ Len(todos) = 1
  /\ Len(views) = 1
  /\ views[1].model = 2

\* C20: a toggle flips the completed flag of its todo and writes the record;
\* title, order, the other todos and records and the order of the store are
\* unchanged, and a second toggle of the same todo gives back the store and the
\* storage of before the first.
C20_Toggle ==
  [][event'.type = "toggle" =>
       LET id == event'.id
           again == Toggled(todos', id)
       IN /\ Len(todos') = Len(todos)
          /\ \A i \in 1..Len(todos) :
               /\ todos'[i].id = todos[i].id
               /\ todos'[i].title = todos[i].title
               /\ todos'[i].order = todos[i].order
               /\ todos'[i].completed =
                    IF todos[i].id = id THEN ~todos[i].completed ELSE todos[i].completed
          /\ ModelOf(todos', id) \in storage'
          /\ {r \in storage' : r.id # id} = {r \in storage : r.id # id}
          /\ Cardinality(storage') = Cardinality(storage)
          /\ again = todos
          /\ StoreWrite(storage', ModelOf(again, id)) = storage]_vars

\* C20 witness: a toggle has put a completed todo back to uncompleted.
C20_Witness ==
  /\ event.type = "toggle"
  /\ Len(todos) = 2
  /\ event.id = todos[2].id
  /\ ~todos[2].completed
  /\ todos[1].completed
  /\ stats = [completed |-> 1, remaining |-> 1]

\* The view of todo id is in editing mode, now and after the step.
Editing(id) ==
  \E i \in 1..Len(views) : views[i].model = id /\ views[i].editing
EditingNext(id) ==
  \E i \in 1..Len(views') : views'[i].model = id /\ views'[i].editing

\* The step changes the text of the edit field, or the title, of todo id.
InputChanges(id) ==
  \E i \in 1..Len(views), j \in 1..Len(views') :
     /\ views[i].model = id
     /\ views'[j].model = id
     /\ views'[j].input # views[i].input
TitleChanges(id) ==
  \E i \in 1..Len(todos), j \in 1..Len(todos') :
     /\ todos[i].id = id
     /\ todos'[j].id = id
     /\ todos'[j].title # todos[i].title

\* The step is the handler of a blur of, or an Enter in, id's edit field.
EditClosedBy(id) ==
  /\ event'.id = id
  /\ \/ event'.type = "blur"
     \/ event'.type = "keypressEdit" /\ event'.which = ENTER_KEY

\* C18: a view is in viewing or in editing mode; it enters editing mode only
\* by a double click on its label and goes back to viewing mode only by a blur
\* of, or an Enter in, its edit field; a keypress other than Enter in the edit
\* field changes neither the views, nor the store, nor the storage; and no
\* handler puts back a text or a title: the text of a field in editing mode
\* changes only by typing, the title of a todo only when its edit is closed.
C18_EditLifecycle ==
  [][/\ \A i \in 1..Len(views') : views'[i].editing \in BOOLEAN
     /\ (event'.type = "keypressEdit" /\ event'.which # ENTER_KEY) =>
          /\ Editing(event'.id) /\ EditingNext(event'.id)
          /\ views' = views
          /\ todos' = todos
          /\ storage' = storage
     /\ views' # views =>
          \A id \in 1..MaxId :
             LET before == Editing(id)
                 after == EditingNext(id)
             IN  /\ (~before /\ after) =>
                      (event'.type = "edit" /\ event'.id = id)
                 /\ (before /\ ~after /\ id \in Ids(todos')) =>
                      EditClosedBy(id)
                 /\ (before /\ after /\ InputChanges(id)) =>
                      event'.type = "typeEdit"
     /\ todos' # todos =>
          \A id \in 1..MaxId : TitleChanges(id) => EditClosedBy(id)]_vars

\* C18 witness: Escape was pressed in an edit field whose text differs from
\* the title; the view is still editing and the text is still there.
C18_Witness ==
  /\ event.type = "keypressEdit"
  /\ event.which = 27
  /\ HasView(event.id)
  /\ ViewOf(event.id).editing
  /\ ViewOf(event.id).input = <<" ">>
  /\ ModelOf(todos, event.id).title = <<"a">>
  /\ focus = event.id

\* What the constructors take at startup: AppView its todos, filter and stats
\* template, and an item view (with its filter and item template) for every
\* stored todo; Filters its todos and filter.
AppViewNeeds(b) ==
  {"TodoList", "TodoFilter", "statsTemplate"} \cup
    (IF b.stored THEN {"TodoView", "itemTemplate"} ELSE {})
FiltersNeeds == {"TodoList", "TodoFilter"}

C21_StatsFresh ==
  [][todos' # todos =>
       /\ shown' <=> Len(todos') # 0
       /\ shown' =>
            /\ stats'.completed = Len(CompletedOf(todos'))
            /\ stats'.remaining = Len(RemainingOf(todos'))
            /\ stats'.completed + stats'.remaining = Len(todos')]_vars

\* C21 witness: a todo was destroyed while a completed one stays; the footer
\* is shown and counts one completed todo and none remaining.
C21_Witness ==
  /\ event.type = "destroy"
  /\ Len(todos) = 1
  /\ todos[1].completed
  /\ shown
  /\ stats = [completed |-> 1, remaining |-> 0]

\* C22: an edit commits at most once: a blur that reaches close() on a view
\* that is not in editing mode (as after an Enter has closed the edit) makes
\* no save, no destroy and no storage write, and changes neither the todo nor
\* the storage.
C22_CommitOnce ==
  [][(event'.type = "blur" /\ ~Editing(event'.id)) =>
       /\ event'.writes = 0
       /\ todos' = todos
       /\ storage' = storage]_vars

\* C23: after every handler, a click on toggle-all with an empty store
\* included, the toggle-all checkbox is checked exactly when remaining() is
\* empty; so a click on toggle-all made while a todo is not completed leaves
\* every todo completed, and one made while every todo is completed leaves
\* every todo not completed.
C23_AllCheckedFresh ==
  [][/\ allChecked' <=> Len(RemainingOf(todos')) = 0
     /\ event'.type = "toggleAll" =>
          /\ Len(RemainingOf(todos)) # 0 =>
               \A i \in 1..Len(todos') : todos'[i].completed
          /\ Len(RemainingOf(todos)) = 0 =>
               \A i \in 1..Len(todos') : ~todos'[i].completed]_vars

====
